---------------------------- MODULE Spec2Model ----------------------------
(***************************************************************************)
(* A model of MatrixCall (src/src/webrtc/call.ts): one call object, the    *)
(* peer connection it drives, the signaling transport it sends through and *)
(* the timers it arms.  Every handler of the class is a record transformer *)
(* (lower-case names, as in the source) applied by one action per handler  *)
(* or per continuation of an await.                                        *)
(***************************************************************************)
EXTENDS Integers, Sequences, FiniteSets, TLC

(***************************************************************************)
(* Bounds of the model: how many stimuli of each kind the environment may  *)
(* deliver in one behaviour.                                               *)
(***************************************************************************)
MaxStimuli == 3
MaxCandFail == 1
MaxSendFail == 6

\* Values of the source.
Undef == -1
Versions == {0, 1}
MsgParties == {"null", "A", "B"}
OurPartyId == "D1"
SelectedParties == {"null", "D1", "D9"}
Reasons == {"none", "ice_failed"}
DescTypes == {"offer", "answer", "invalid"}
NoStream == <<"none", 0>>
RemoteStreamId == <<"remote", 0>>
NoMsg == [party_id |-> "null", version |-> Undef, local_age |-> 0]
\* successor while it is undefined; present once replacedBy has set it
NoCall ==
    [present |-> FALSE, waitForLocalAVStream |-> FALSE,
     localAVStream |-> NoStream, mediaFailed |-> FALSE]

VARIABLES
    \* fields of MatrixCall
    state, direction, hangupParty, hangupReason,
    opponentPartyId, opponentVersion, msg,
    candidateSendQueue, candidateSendTries, sentEndOfCandidates,
    inviteOrAnswerSent, waitForLocalAVStream,
    localAVStream, remoteStream, peerConn, inviteTimeout,
    makingOffer, ignoreOffer,
    \* the peer connection (peerConn holds its signalingState, or "none"):
    \* its iceConnectionState, the operations awaiting settlement (in call
    \* order), streams attached with addStream, remote candidates added
    iceConnectionState, pcChain, pcStreams, pcCandidates,
    \* media: streams handed out by getUserMedia, streams whose tracks are stopped
    streamsAcquired, stoppedTracks, gumPending,
    \* timers armed with setTimeout and not yet fired or cleared
    timers,
    \* transport: sends awaiting settlement, messages handed over so far
    sending, candInFlight, sent, cancelled,
    \* events emitted to the owner
    emitted, stateEvents,
    \* stimuli used so far; whether an invite or answer send has succeeded;
    \* how often hangup() was called and the empty candidate was queued
    used, descSentOk, hangupCalls, endOfCandidatesQueued,
    \* the call that replaces this one (the fields of it this call touches),
    \* and the candidates of failed sends still waiting to be sent again
    successor, retryCandidates,
    \* micMuted, vidMuted and remoteOnHold, and the enabled flags of the
    \* audio and of the video tracks of the local stream
    tracks

vars == <<state, direction, hangupParty, hangupReason, opponentPartyId,
          opponentVersion, msg, candidateSendQueue, candidateSendTries,
          sentEndOfCandidates, inviteOrAnswerSent, waitForLocalAVStream,
          localAVStream, remoteStream, peerConn, inviteTimeout, makingOffer,
          ignoreOffer, pcChain, pcStreams, pcCandidates, streamsAcquired,
          stoppedTracks, gumPending, timers, sending, candInFlight, sent,
          cancelled, emitted, stateEvents, used, descSentOk, hangupCalls,
          endOfCandidatesQueued, iceConnectionState, successor,
          retryCandidates, tracks>>

\* The current values as one record, and the commitment of such a record.
Cur ==
    [state |-> state, direction |-> direction, hangupParty |-> hangupParty,
     hangupReason |-> hangupReason, opponentPartyId |-> opponentPartyId,
     opponentVersion |-> opponentVersion, msg |-> msg,
     candidateSendQueue |-> candidateSendQueue,
     candidateSendTries |-> candidateSendTries,
     sentEndOfCandidates |-> sentEndOfCandidates,
     inviteOrAnswerSent |-> inviteOrAnswerSent,
     waitForLocalAVStream |-> waitForLocalAVStream,
     localAVStream |-> localAVStream, remoteStream |-> remoteStream,
     peerConn |-> peerConn, inviteTimeout |-> inviteTimeout,
     makingOffer |-> makingOffer, ignoreOffer |-> ignoreOffer,
     pcChain |-> pcChain, pcStreams |-> pcStreams,
     pcCandidates |-> pcCandidates, streamsAcquired |-> streamsAcquired,
     stoppedTracks |-> stoppedTracks, gumPending |-> gumPending,
     timers |-> timers, sending |-> sending, candInFlight |-> candInFlight,
     sent |-> sent, cancelled |-> cancelled, emitted |-> emitted,
     stateEvents |-> stateEvents, used |-> used, descSentOk |-> descSentOk,
     hangupCalls |-> hangupCalls,
     endOfCandidatesQueued |-> endOfCandidatesQueued,
     iceConnectionState |-> iceConnectionState,
     successor |-> successor, retryCandidates |-> retryCandidates,
     tracks |-> tracks]

Commit(c) ==
    /\ state' = c.state
    /\ direction' = c.direction
    /\ hangupParty' = c.hangupParty
    /\ hangupReason' = c.hangupReason
    /\ opponentPartyId' = c.opponentPartyId
    /\ opponentVersion' = c.opponentVersion
    /\ msg' = c.msg
    /\ candidateSendQueue' = c.candidateSendQueue
    /\ candidateSendTries' = c.candidateSendTries
    /\ sentEndOfCandidates' = c.sentEndOfCandidates
    /\ inviteOrAnswerSent' = c.inviteOrAnswerSent
    /\ waitForLocalAVStream' = c.waitForLocalAVStream
    /\ localAVStream' = c.localAVStream
    /\ remoteStream' = c.remoteStream
    /\ peerConn' = c.peerConn
    /\ inviteTimeout' = c.inviteTimeout
    /\ makingOffer' = c.makingOffer
    /\ ignoreOffer' = c.ignoreOffer
    /\ pcChain' = c.pcChain
    /\ pcStreams' = c.pcStreams
    /\ pcCandidates' = c.pcCandidates
    /\ streamsAcquired' = c.streamsAcquired
    /\ stoppedTracks' = c.stoppedTracks
    /\ gumPending' = c.gumPending
    /\ timers' = c.timers
    /\ sending' = c.sending
    /\ candInFlight' = c.candInFlight
    /\ sent' = c.sent
    /\ cancelled' = c.cancelled
    /\ emitted' = c.emitted
    /\ stateEvents' = c.stateEvents
    /\ used' = c.used
    /\ descSentOk' = c.descSentOk
    /\ hangupCalls' = c.hangupCalls
    /\ endOfCandidatesQueued' = c.endOfCandidatesQueued
    /\ iceConnectionState' = c.iceConnectionState
    /\ successor' = c.successor
    /\ retryCandidates' = c.retryCandidates
    /\ tracks' = c.tracks

\* The constructor.
Init ==
    /\ state = "fledgling"
    /\ direction = "null"
    /\ hangupParty = "null"
    /\ hangupReason = ""
    /\ opponentPartyId = "undefined"
    /\ opponentVersion = Undef
    /\ msg = NoMsg
    /\ candidateSendQueue = <<>>
    /\ candidateSendTries = 0
    /\ sentEndOfCandidates = FALSE
    /\ inviteOrAnswerSent = FALSE
    /\ waitForLocalAVStream = FALSE
    /\ localAVStream = NoStream
    /\ remoteStream = NoStream
    /\ peerConn = "none"
    /\ inviteTimeout = FALSE
    /\ makingOffer = FALSE
    /\ ignoreOffer = FALSE
    /\ pcChain = <<>>
    /\ pcStreams = 0
    /\ pcCandidates = 0
    /\ streamsAcquired = 0
    /\ stoppedTracks = {}
    /\ gumPending = [place |-> 0, answer |-> 0]
    /\ timers = [invite |-> 0, ring |-> 0, flush |-> 0,
                 answerGather |-> 0, offerGather |-> 0]
    /\ sending = [answer |-> 0, invite |-> 0, negotiate |-> 0]
    /\ candInFlight = <<>>
    /\ sent = [invite |-> 0, answer |-> 0, candidates |-> 0, negotiate |-> 0,
               hangup |-> 0, reject |-> 0, select_answer |-> 0]
    /\ cancelled = 0
    /\ emitted = [hangup |-> 0, error |-> 0, hold_unhold |-> 0, replaced |-> 0,
                  code |-> ""]
    /\ stateEvents = 0
    /\ used = [stimuli |-> 0, cands |-> 0, candfail |-> 0]
    /\ descSentOk = FALSE
    /\ hangupCalls = 0
    /\ endOfCandidatesQueued = 0
    /\ iceConnectionState = "new"
    /\ successor = NoCall
    /\ retryCandidates = <<>>
    /\ tracks = [micMuted |-> FALSE, vidMuted |-> FALSE,
                 remoteOnHold |-> FALSE, audio |-> TRUE, video |-> TRUE]


-----------------------------------------------------------------------------
(***************************************************************************)
(* Helpers of the class, as transformers of the record of current values.  *)
(***************************************************************************)

callHasEnded(c) == c.state = "ended"

\* setState: assigns and emits the State event.
setState(c, s) == [c EXCEPT !.state = s, !.stateEvents = @ + 1]

\* EventEmitter.emit for the Hangup and Error events.
emit(c, ev) == [c EXCEPT !.emitted[ev] = @ + 1]

\* emit(CallEvent.Error, new CallError(code, ...)); the application has
\* attached the error listener that checkForErrorListener asks for.
emitError(c, code) == [emit(c, "error") EXCEPT !.emitted.code = code]

\* msg.party_id || null compared with the committed opponent.
partyIdMatches(c, party_id) == party_id = c.opponentPartyId

\* sendVoipEvent: hands one message of the given type to the transport.
sendVoipEvent(c, type) == [c EXCEPT !.sent[type] = @ + 1]

stopAllMedia(c) ==
    [c EXCEPT !.stoppedTracks =
        @ \cup ({c.localAVStream, c.remoteStream} \ {NoStream})]

\* peerConn.close() when there is a connection that is not closed yet.
closePeerConn(c) ==
    IF c.peerConn \notin {"none", "closed"}
    THEN [c EXCEPT !.peerConn = "closed", !.iceConnectionState = "closed"]
    ELSE c

\* terminate's clearTimeout left out: the timer survives the end of the call
clearInviteTimeoutSkipped(c) == c

clearInviteTimeout(c) ==
    IF c.inviteTimeout
    THEN [c EXCEPT !.inviteTimeout = FALSE, !.timers.invite = @ - 1]
    ELSE c

\* terminate that leaves the peer connection open
terminateKeepsPeerConn(c, party, reason, shouldEmit) ==
    IF callHasEnded(c) THEN c
    ELSE LET c1 == clearInviteTimeout(c)
             c2 == [c1 EXCEPT !.hangupParty = party, !.hangupReason = reason]
             c3 == stopAllMedia(setState(c2, "ended"))
         IN  IF shouldEmit THEN emit(c3, "hangup") ELSE c3

terminate(c, party, reason, shouldEmit) ==
    IF callHasEnded(c) THEN c
    ELSE LET c1 == clearInviteTimeout(c)
             c2 == [c1 EXCEPT !.hangupParty = party, !.hangupReason = reason]
             c3 == closePeerConn(stopAllMedia(setState(c2, "ended")))
         IN  IF shouldEmit THEN emit(c3, "hangup") ELSE c3

\* Takes the whole queue and sends it as one candidates message.
sendCandidateQueue(c) ==
    IF c.candidateSendQueue = <<>> THEN c
    ELSE sendVoipEvent(
            [c EXCEPT !.candidateSendQueue = <<>>,
                      !.retryCandidates = <<>>,
                      !.candidateSendTries = @ + 1,
                      !.candInFlight = Append(@, c.candidateSendQueue)],
            "candidates")

queueCandidate(c, cand) ==
    LET c1 == [c EXCEPT !.candidateSendQueue = Append(@, cand),
                        !.endOfCandidatesQueued =
                            IF cand = 0 THEN @ + 1 ELSE @]
    IN  IF c1.state = "ringing" \/ ~c1.inviteOrAnswerSent THEN c1
        ELSE IF c1.candidateSendTries = 0
             THEN [c1 EXCEPT !.timers.flush = @ + 1]
             ELSE c1

\* hangup without the test for a call that has ended
hangupUnguarded(c, reason, suppressEvent) ==
    sendVoipEvent(terminate(c, "local", reason, ~suppressEvent), "hangup")

hangup(c, reason, suppressEvent) ==
    IF callHasEnded(c) THEN c
    ELSE sendVoipEvent(terminate(c, "local", reason, ~suppressEvent), "hangup")

\* reject that never falls back to a hangup for a legacy opponent
rejectAnyVersion(c) ==
    IF c.state # "ringing" THEN c
    ELSE sendVoipEvent(terminate(c, "local", "user_hangup", TRUE), "reject")

\* Outside Ringing reject throws and nothing is changed; opponentVersion < 1
\* is false for an undefined version.
reject(c) ==
    IF c.state # "ringing" THEN c
    ELSE IF c.opponentVersion # Undef /\ c.opponentVersion < 1
         THEN hangup(c, "user_hangup", TRUE)
         ELSE sendVoipEvent(terminate(c, "local", "user_hangup", TRUE), "reject")

getUserMediaFailed(c) ==
    IF c.successor.present
    THEN [c EXCEPT !.successor.mediaFailed = TRUE]
    ELSE terminate(emitError(c, "no_user_media"), "local", "no_user_media",
                   FALSE)

getLocalOfferFailed(c) ==
    terminate(emitError(c, "local_offer_failed"), "local",
              "local_offer_failed", FALSE)

\* An operation handed to the peer connection, to be settled in call order.
pcCall(c, op) == [c EXCEPT !.pcChain = Append(@, op)]

\* The part of gotUserMediaForInvite up to its end.
gotUserMediaForInvite(c, stream) ==
    IF c.successor.present
    THEN [c EXCEPT !.successor.localAVStream = stream]
    ELSE IF callHasEnded(c) THEN c
    ELSE [setState(c, "create_offer") EXCEPT
             !.localAVStream = stream,
             !.tracks.audio = TRUE,
             !.peerConn = "stable",
             !.pcStreams = @ + 1]

\* The part of gotUserMediaForAnswer up to the await of createAnswer.
gotUserMediaForAnswer(c, stream) ==
    IF callHasEnded(c) THEN c
    ELSE LET c1 == [c EXCEPT !.localAVStream = stream,
                             !.tracks.audio = TRUE,
                             !.pcStreams = @ + 1]
         IN  pcCall(setState(c1, "create_answer"), <<"guma.createAnswer">>)

\* sendAnswer up to the send; its then/catch handlers are actions below.
sendAnswer(c) ==
    [sendVoipEvent([c EXCEPT !.candidateSendQueue = <<>>,
                             !.retryCandidates = <<>>], "answer")
        EXCEPT !.sending.answer = @ + 1]

\* The end of onNegotiationNeeded: its finally clause.
offerDone(c) == [c EXCEPT !.makingOffer = FALSE]

\* gotLocalOffer after the gather wait: the second ended test and the send.
gotLocalOfferSend(c) ==
    IF callHasEnded(c) THEN offerDone(c)
    ELSE LET eventType == IF c.state = "create_offer" THEN "invite"
                          ELSE "negotiate"
         IN  [sendVoipEvent([c EXCEPT !.candidateSendQueue = <<>>,
                                      !.retryCandidates = <<>>], eventType)
                 EXCEPT !.sending[eventType] = @ + 1]


-----------------------------------------------------------------------------
(***************************************************************************)
(* The peer connection.  An awaited operation settles when it is the       *)
(* oldest one pending; it may always fail, and it succeeds only in a       *)
(* signaling state that allows it (or once the connection is closed, when  *)
(* the result of an operation that had completed is still delivered).      *)
(***************************************************************************)
PcHead(op) == pcChain # <<>> /\ Head(pcChain)[1] = op

PcPop(c) == [c EXCEPT !.pcChain = Tail(@)]

PcAllows(op, type) ==
    \/ peerConn = "closed"
    \/ op = "createOffer"
    \/ op = "createAnswer" /\ peerConn = "have-remote-offer"
    \/ op = "setLocal" /\ type = "offer"
          /\ peerConn \in {"stable", "have-local-offer"}
    \/ op = "setLocal" /\ type = "answer" /\ peerConn = "have-remote-offer"
    \/ op = "setRemote" /\ type = "offer"
          /\ peerConn \in {"stable", "have-remote-offer", "have-local-offer"}
    \/ op = "setRemote" /\ type = "answer" /\ peerConn = "have-local-offer"

\* The signaling state after a description has been applied.
PcApply(c, op, type) ==
    IF c.peerConn \in {"none", "closed"} THEN c
    ELSE [c EXCEPT !.peerConn =
            IF type = "answer" THEN "stable"
            ELSE IF op = "setLocal" THEN "have-local-offer"
            ELSE "have-remote-offer"]

-----------------------------------------------------------------------------
(***************************************************************************)
(* Outbound: placeVoiceCall, placeCallWithConstraints and the media they   *)
(* wait for.                                                               *)
(***************************************************************************)
Fresh ==
    /\ state = "fledgling" /\ direction = "null"
    /\ peerConn = "none" /\ msg = NoMsg /\ gumPending.place = 0

placeCallWithConstraints(c) ==
    [setState(c, "wait_local_media") EXCEPT
        !.direction = "outbound", !.gumPending.place = 1]

PlaceVoiceCall ==
    /\ Fresh
    /\ Commit(placeCallWithConstraints(Cur))

NewStream(c) == <<"local", c.streamsAcquired + 1>>

\* The tracks of a stream that getUserMedia hands out are enabled.
newTracks(c) == [c EXCEPT !.tracks.audio = TRUE, !.tracks.video = TRUE]

\* getUserMedia resolves; isStream is the instanceof MediaStream test.
PlaceMediaGot(isStream) ==
    /\ gumPending.place = 1
    /\ LET c1 == [Cur EXCEPT !.gumPending.place = 0,
                             !.streamsAcquired = @ + 1]
       IN  Commit(IF isStream
                  THEN gotUserMediaForInvite(newTracks(c1), NewStream(Cur))
                  ELSE getUserMediaFailed(c1))

PlaceMediaResolves == \E isStream \in BOOLEAN : PlaceMediaGot(isStream)

PlaceMediaRejects ==
    /\ gumPending.place = 1
    /\ Commit(getUserMediaFailed([Cur EXCEPT !.gumPending.place = 0]))

-----------------------------------------------------------------------------
(***************************************************************************)
(* onNegotiationNeeded and gotLocalOffer.                                  *)
(***************************************************************************)
onNegotiationNeeded(c) ==
    IF c.state # "create_offer" /\ c.opponentVersion = 0 THEN c
    ELSE pcCall([c EXCEPT !.makingOffer = TRUE], <<"off.createOffer">>)

OnNegotiationNeeded ==
    /\ peerConn \notin {"none", "closed"}
    /\ pcStreams > 0
    /\ used.stimuli < MaxStimuli
    /\ Commit(onNegotiationNeeded([Cur EXCEPT !.used.stimuli = @ + 1]))

\* createOffer resolved: gotLocalOffer up to the await of setLocalDescription.
gotLocalOffer(c) ==
    IF callHasEnded(c) THEN offerDone(c)
    ELSE pcCall(c, <<"off.setLocal">>)

OfferCreated ==
    /\ PcHead("off.createOffer")
    /\ PcAllows("createOffer", "offer")
    /\ Commit(gotLocalOffer(PcPop(Cur)))

OfferCreateFails ==
    /\ PcHead("off.createOffer")
    /\ Commit(offerDone(getLocalOfferFailed(PcPop(Cur))))

\* setLocalDescription resolved; gathering is iceGatheringState = 'gathering'.
OfferSetLocal ==
    /\ PcHead("off.setLocal")
    /\ PcAllows("setLocal", "offer")
    /\ \E gathering \in BOOLEAN :
        LET c1 == PcApply(PcPop(Cur), "setLocal", "offer")
        IN  Commit(IF gathering
                   THEN [c1 EXCEPT !.timers.offerGather = @ + 1]
                   ELSE gotLocalOfferSend(c1))

OfferSetLocalFails ==
    /\ PcHead("off.setLocal")
    /\ Commit(offerDone(
            terminate(PcPop(Cur), "local", "set_local_description", TRUE)))

OfferGatherWaitEnds ==
    /\ timers.offerGather > 0
    /\ Commit(gotLocalOfferSend([Cur EXCEPT !.timers.offerGather = @ - 1]))

\* The invite or negotiate send resolved.
offerSent(c) ==
    LET c1 == sendCandidateQueue(c)
    IN  offerDone(
          IF c1.state = "create_offer"
          THEN [setState([c1 EXCEPT !.inviteOrAnswerSent = TRUE], "invite_sent")
                   EXCEPT !.inviteTimeout = TRUE, !.timers.invite = @ + 1]
          ELSE c1)

\* The invite or negotiate send failed.
offerSendFailed(c, unknownDevices) ==
    LET code == IF unknownDevices THEN "unknown_devices"
                ELSE IF c.state = "create_offer" THEN "send_invite"
                ELSE "signalling_timeout"
        c1 == emitError([c EXCEPT !.cancelled = @ + 1], code)
    IN  offerDone(terminate(c1, "local", code, FALSE))

OfferSendResolves ==
    \E type \in {"invite", "negotiate"} :
        /\ sending[type] > 0
        /\ Commit(offerSent([Cur EXCEPT
                !.sending[type] = @ - 1,
                !.descSentOk = @ \/ type = "invite"]))

OfferSendFails(type, unknownDevices) ==
    /\ sending[type] > 0
    /\ Commit(offerSendFailed([Cur EXCEPT !.sending[type] = @ - 1],
                              unknownDevices))

OfferSendRejects ==
    \E type \in {"invite", "negotiate"}, unknownDevices \in BOOLEAN :
        OfferSendFails(type, unknownDevices)

\* A timeout callback that hangs up only while the offer is being created
inviteTimeoutFiredTooEarly(c) ==
    LET c1 == [c EXCEPT !.inviteTimeout = FALSE]
    IN  IF c1.state = "create_offer"
        THEN hangup(c1, "invite_timeout", FALSE)
        ELSE c1

\* The callback of the invite timeout.
inviteTimeoutFired(c) ==
    LET c1 == [c EXCEPT !.inviteTimeout = FALSE]
    IN  IF c1.state = "invite_sent"
        THEN hangup(c1, "invite_timeout", FALSE)
        ELSE c1

InviteTimeoutFires ==
    /\ timers.invite > 0
    /\ Commit(inviteTimeoutFired([Cur EXCEPT !.timers.invite = @ - 1]))


-----------------------------------------------------------------------------
(***************************************************************************)
(* Inbound: initWithInvite, initWithHangup, answer and the answer path.    *)
(***************************************************************************)
Invites ==
    [party_id : {"null", "A"}, version : Versions, local_age : {0, 1}]

\* initWithInvite up to the await of setRemoteDescription.
initWithInvite(c, m) ==
    pcCall([c EXCEPT !.msg = m, !.peerConn = "stable"], <<"inv.setRemote">>)

InitWithInvite ==
    /\ Fresh
    /\ \E m \in Invites : Commit(initWithInvite(Cur, m))

\* initWithInvite after setRemoteDescription resolved.
invited(c, hasRemoteStreams) ==
    IF ~hasRemoteStreams
    THEN terminate(c, "local", "set_remote_description", FALSE)
    ELSE LET c1 == setState([c EXCEPT !.remoteStream = RemoteStreamId],
                            "ringing")
             c2 == [c1 EXCEPT !.direction = "inbound",
                              !.opponentVersion = c.msg.version,
                              !.opponentPartyId = c.msg.party_id]
         IN  IF c.msg.local_age # 0
             THEN [c2 EXCEPT !.timers.ring = @ + 1]
             ELSE c2

InviteSetRemote ==
    /\ PcHead("inv.setRemote")
    /\ PcAllows("setRemote", "offer")
    /\ \E hasRemoteStreams \in BOOLEAN :
        Commit(invited(PcApply(PcPop(Cur), "setRemote", "offer"),
                       hasRemoteStreams))

InviteSetRemoteFails ==
    /\ PcHead("inv.setRemote")
    /\ Commit(terminate(PcPop(Cur), "local", "set_remote_description", FALSE))

\* The callback of the ring timer armed by initWithInvite.
ringExpired(c) ==
    IF c.state = "ringing"
    THEN emit(closePeerConn(stopAllMedia(
            setState([c EXCEPT !.hangupParty = "remote"], "ended"))),
            "hangup")
    ELSE c

RingTimerFires ==
    /\ timers.ring > 0
    /\ Commit(ringExpired([Cur EXCEPT !.timers.ring = @ - 1]))

initWithHangup(c) == setState(c, "ended")

InitWithHangup ==
    /\ Fresh
    /\ Commit(initWithHangup(Cur))

\* answer() up to its await of getUserMedia or to its end.
answer(c) ==
    IF c.inviteOrAnswerSent THEN c
    ELSE IF c.localAVStream = NoStream /\ ~c.waitForLocalAVStream
    THEN [setState(c, "wait_local_media") EXCEPT
             !.waitForLocalAVStream = TRUE, !.gumPending.answer = @ + 1]
    ELSE IF c.localAVStream # NoStream
    THEN gotUserMediaForAnswer(c, c.localAVStream)
    ELSE setState(c, "wait_local_media")

UserMay == used.stimuli < MaxStimuli
UserDid(c) == [c EXCEPT !.used.stimuli = @ + 1]

Answer ==
    /\ direction = "inbound"
    /\ UserMay
    /\ Commit(answer(UserDid(Cur)))

AnswerMediaResolves ==
    /\ gumPending.answer > 0
    /\ Commit(gotUserMediaForAnswer(
            newTracks([Cur EXCEPT !.gumPending.answer = @ - 1,
                                  !.streamsAcquired = @ + 1,
                                  !.waitForLocalAVStream = FALSE]),
            NewStream(Cur)))

AnswerMediaRejects ==
    /\ gumPending.answer > 0
    /\ Commit(getUserMediaFailed([Cur EXCEPT !.gumPending.answer = @ - 1]))

AnswerCreated ==
    /\ PcHead("guma.createAnswer")
    /\ PcAllows("createAnswer", "answer")
    /\ Commit(pcCall(PcPop(Cur), <<"guma.setLocal">>))

AnswerCreateFails ==
    /\ PcHead("guma.createAnswer")
    /\ Commit(terminate(PcPop(Cur), "local", "create_answer", TRUE))

\* gotUserMediaForAnswer after setLocalDescription resolved.
answerSetLocal(c) ==
    [setState(c, "connecting") EXCEPT !.timers.answerGather = @ + 1]

AnswerSetLocal ==
    /\ PcHead("guma.setLocal")
    /\ PcAllows("setLocal", "answer")
    /\ Commit(answerSetLocal(PcApply(PcPop(Cur), "setLocal", "answer")))

AnswerSetLocalFails ==
    /\ PcHead("guma.setLocal")
    /\ Commit(terminate(PcPop(Cur), "local", "set_local_description", TRUE))

AnswerGatherWaitEnds ==
    /\ timers.answerGather > 0
    /\ Commit(sendAnswer([Cur EXCEPT !.timers.answerGather = @ - 1]))

\* The then handler of the answer send.
answerSent(c) == sendCandidateQueue([c EXCEPT !.inviteOrAnswerSent = TRUE])

\* A catch handler that does not ask the client to cancel the event
answerSendFailedKeepsEvent(c, unknownDevices) ==
    emitError(setState(c, "ringing"),
              IF unknownDevices THEN "unknown_devices" ELSE "send_answer")

\* The catch handler of the answer send.
answerSendFailed(c, unknownDevices) ==
    emitError([setState(c, "ringing") EXCEPT !.cancelled = @ + 1],
              IF unknownDevices THEN "unknown_devices" ELSE "send_answer")

AnswerSendResolves ==
    /\ sending.answer > 0
    /\ Commit(answerSent([Cur EXCEPT !.sending.answer = @ - 1,
                                     !.descSentOk = TRUE]))

AnswerSendFails(unknownDevices) ==
    /\ sending.answer > 0
    /\ Commit(answerSendFailed([Cur EXCEPT !.sending.answer = @ - 1],
                               unknownDevices))

AnswerSendRejects ==
    \E unknownDevices \in BOOLEAN : AnswerSendFails(unknownDevices)

\* hangup(reason, suppressEvent) and reject() called by the application.
HangupCalled(reason, suppressEvent) ==
    /\ state # "fledgling" \/ direction # "null"
    /\ UserMay
    /\ Commit(hangup([UserDid(Cur) EXCEPT !.hangupCalls = @ + 1],
                     reason, suppressEvent))

Hangup ==
    \E suppressEvent \in BOOLEAN : HangupCalled("user_hangup", suppressEvent)

\* replacedBy that hangs up without suppressing the Hangup event
replacedByWithEvent(c) ==
    LET c1 == IF c.state = "wait_local_media"
              THEN [c EXCEPT !.successor.waitForLocalAVStream = TRUE]
              ELSE IF c.state = "create_offer"
              THEN [c EXCEPT !.successor.localAVStream = c.localAVStream,
                             !.tracks.audio = TRUE]
              ELSE c
        c2 == emit([c1 EXCEPT !.successor.present = TRUE], "replaced")
    IN  hangup(c2, "replaced", FALSE)

\* replacedBy(newCall): newCall is told to wait for, or is handed, the media.
replacedBy(c) ==
    LET c1 == IF c.state = "wait_local_media"
              THEN [c EXCEPT !.successor.waitForLocalAVStream = TRUE]
              ELSE IF c.state = "create_offer"
              THEN [c EXCEPT !.successor.localAVStream = c.localAVStream,
                             !.tracks.audio = TRUE]
              ELSE c
        c2 == emit([c1 EXCEPT !.successor.present = TRUE], "replaced")
    IN  hangup(c2, "replaced", TRUE)

\* The client replaces this call by a call that has come in from the callee.
ReplacedBy ==
    /\ direction = "outbound"
    /\ ~successor.present
    /\ UserMay
    /\ Commit(replacedBy(UserDid(Cur)))

Reject ==
    /\ direction = "inbound"
    /\ UserMay
    /\ Commit(reject(UserDid(Cur)))


-----------------------------------------------------------------------------
(***************************************************************************)
(* Signaling messages delivered by the client's event handler.             *)
(***************************************************************************)
Registered == state # "fledgling" \/ direction # "null" \/ msg # NoMsg

InboundMay == Registered /\ used.stimuli < MaxStimuli
InboundDid(c) == [c EXCEPT !.used.stimuli = @ + 1]

\* onAnswerReceived after setRemoteDescription resolved.
answerAccepted(c) ==
    IF c.opponentPartyId # "null" THEN sendVoipEvent(c, "select_answer")
    ELSE c

\* onAnswerReceived without the transition to Connecting
onAnswerReceivedKeepsState(c, party_id, version) ==
    IF callHasEnded(c) THEN c
    ELSE IF c.opponentPartyId # "undefined" THEN c
    ELSE LET c1 == [c EXCEPT !.opponentVersion = version,
                             !.opponentPartyId = party_id]
         IN  IF c1.peerConn = "none" THEN answerAccepted(c1)
             ELSE pcCall(c1, <<"ans.setRemote">>)

\* onAnswerReceived up to the await of setRemoteDescription.
onAnswerReceived(c, party_id, version) ==
    IF callHasEnded(c) THEN c
    ELSE IF c.opponentPartyId # "undefined" THEN c
    ELSE LET c1 == setState([c EXCEPT !.opponentVersion = version,
                                      !.opponentPartyId = party_id],
                            "connecting")
         IN  IF c1.peerConn = "none" THEN answerAccepted(c1)
             ELSE pcCall(c1, <<"ans.setRemote">>)

AnswerFrom(party_id, version) ==
    /\ InboundMay
    /\ Commit(onAnswerReceived(InboundDid(Cur), party_id, version))

OnAnswerReceived ==
    \E party_id \in MsgParties, version \in Versions :
        AnswerFrom(party_id, version)

AnswerSetRemote ==
    /\ PcHead("ans.setRemote")
    /\ PcAllows("setRemote", "answer")
    /\ Commit(answerAccepted(PcApply(PcPop(Cur), "setRemote", "answer")))

AnswerSetRemoteFails ==
    /\ PcHead("ans.setRemote")
    /\ Commit(terminate(PcPop(Cur), "local", "set_remote_description", FALSE))

\* onSelectAnswerReceived without the test of the call's direction
onSelectAnswerReceivedAnyDirection(c, selected_party_id) ==
    IF selected_party_id = "null" THEN c
    ELSE IF selected_party_id # OurPartyId
    THEN terminate(c, "remote", "answered_elsewhere", TRUE)
    ELSE c

onSelectAnswerReceived(c, selected_party_id) ==
    IF c.direction # "inbound" THEN c
    ELSE IF selected_party_id = "null" THEN c
    ELSE IF selected_party_id # OurPartyId
    THEN terminate(c, "remote", "answered_elsewhere", TRUE)
    ELSE c

SelectAnswerFrom(party_id, selected) ==
    /\ InboundMay
    /\ Commit(onSelectAnswerReceived(InboundDid(Cur), selected))

OnSelectAnswerReceived ==
    \E party_id \in MsgParties, selected \in SelectedParties :
        SelectAnswerFrom(party_id, selected)

isLocalOnHold(c) == c.state = "connected"

\* The end of onNegotiateReceived: the HoldUnhold event.
negotiated(c, prevOnHold) ==
    IF prevOnHold # isLocalOnHold(c) THEN emit(c, "hold_unhold") ELSE c

\* onNegotiateReceived up to the await of setRemoteDescription.
onNegotiateReceived(c, type) ==
    IF type = "invalid" THEN c
    ELSE LET polite == c.direction = "inbound"
             offerCollision ==
                 type = "offer" /\ (c.makingOffer \/ c.peerConn # "stable")
             c1 == [c EXCEPT !.ignoreOffer = ~polite /\ offerCollision]
         IN  IF c1.ignoreOffer THEN c1
             ELSE IF c1.peerConn = "none"
             THEN (IF type = "offer" THEN sendVoipEvent(c1, "negotiate")
                   ELSE c1)
             ELSE pcCall(c1, <<"neg.setRemote", type, isLocalOnHold(c1)>>)

NegotiateFrom(party_id, type) ==
    /\ InboundMay
    /\ Commit(onNegotiateReceived(InboundDid(Cur), type))

OnNegotiateReceived ==
    \E party_id \in MsgParties, type \in DescTypes :
        NegotiateFrom(party_id, type)

NegotiateSetRemote ==
    /\ PcHead("neg.setRemote")
    /\ PcAllows("setRemote", Head(pcChain)[2])
    /\ LET type == Head(pcChain)[2]
           prev == Head(pcChain)[3]
           c1 == PcApply(PcPop(Cur), "setRemote", type)
       IN  Commit(IF type = "offer"
                  THEN pcCall(c1, <<"neg.createAnswer", type, prev>>)
                  ELSE negotiated(c1, prev))

NegotiateAnswerCreated ==
    /\ PcHead("neg.createAnswer")
    /\ PcAllows("createAnswer", "answer")
    /\ Commit(pcCall(PcPop(Cur),
                     <<"neg.setLocal", "offer", Head(pcChain)[3]>>))

NegotiateSetLocal ==
    /\ PcHead("neg.setLocal")
    /\ PcAllows("setLocal", "answer")
    /\ Commit(negotiated(
            sendVoipEvent(PcApply(PcPop(Cur), "setLocal", "answer"),
                          "negotiate"),
            Head(pcChain)[3]))

\* Any of the three awaits failed: the catch of onNegotiateReceived.
NegotiateStepFails ==
    /\ \/ PcHead("neg.setRemote")
       \/ PcHead("neg.createAnswer")
       \/ PcHead("neg.setLocal")
    /\ Commit(negotiated(PcPop(Cur), Head(pcChain)[3]))

\* onHangupReceived that accepts a hangup only from the chosen party
onHangupReceivedFromPartnerOnly(c, party_id, reason) ==
    IF ~partyIdMatches(c, party_id) THEN c
    ELSE terminate(c, "remote",
                   IF reason = "none" THEN "user_hangup" ELSE reason, TRUE)

onHangupReceived(c, party_id, reason) ==
    IF ~partyIdMatches(c, party_id) /\ c.opponentPartyId # "undefined" THEN c
    ELSE terminate(c, "remote",
                   IF reason = "none" THEN "user_hangup" ELSE reason, TRUE)

HangupFrom(party_id, reason) ==
    /\ InboundMay
    /\ Commit(onHangupReceived(InboundDid(Cur), party_id, reason))

OnHangupReceived ==
    \E party_id \in MsgParties, reason \in Reasons :
        HangupFrom(party_id, reason)

onRejectReceived(c) ==
    IF c.state = "invite_sent"
    THEN terminate(c, "remote", "user_hangup", TRUE)
    ELSE c

RejectFrom(party_id) ==
    /\ InboundMay
    /\ Commit(onRejectReceived(InboundDid(Cur)))

OnRejectReceived == \E party_id \in MsgParties : RejectFrom(party_id)

onAnsweredElsewhere(c) ==
    terminate(c, "remote", "answered_elsewhere", TRUE)

OnAnsweredElsewhere ==
    /\ InboundMay
    /\ Commit(onAnsweredElsewhere(InboundDid(Cur)))

\* The candidates of a message: TRUE for one that has sdpMid or sdpMLineIndex.
CandLists == {<<>>, <<TRUE>>, <<FALSE, TRUE>>}

\* How many candidates the loop adds before it returns.
RECURSIVE Added(_)
Added(cands) ==
    IF cands = <<>> \/ ~Head(cands) THEN 0 ELSE 1 + Added(Tail(cands))

onRemoteIceCandidatesReceived(c, party_id, cands) ==
    IF callHasEnded(c) THEN c
    ELSE IF ~partyIdMatches(c, party_id) THEN c
    ELSE IF c.peerConn = "none" THEN c
    ELSE [c EXCEPT !.pcCandidates = @ + Added(cands)]

CandidatesFrom(party_id, cands) ==
    /\ InboundMay
    /\ Commit(onRemoteIceCandidatesReceived(InboundDid(Cur), party_id, cands))

OnRemoteIceCandidatesReceived ==
    \E party_id \in MsgParties, cands \in CandLists :
        CandidatesFrom(party_id, cands)

-----------------------------------------------------------------------------
(***************************************************************************)
(* Events of the peer connection, and the candidate queue.                 *)
(***************************************************************************)
\* cand: Undef for an event without candidate, 0 for the empty candidate
\* string, 1.. for a candidate proper.
\* gotLocalIceCandidate without the test of sentEndOfCandidates
gotLocalIceCandidateUnchecked(c, cand) ==
    IF cand = Undef THEN c
    ELSE IF callHasEnded(c) THEN c
    ELSE LET c1 == queueCandidate(c, cand)
         IN  IF cand = 0 THEN [c1 EXCEPT !.sentEndOfCandidates = TRUE] ELSE c1

gotLocalIceCandidate(c, cand) ==
    IF cand = Undef THEN c
    ELSE IF callHasEnded(c) THEN c
    ELSE IF cand # 0 \/ ~c.sentEndOfCandidates
    THEN LET c1 == queueCandidate(c, cand)
         IN  IF cand = 0 THEN [c1 EXCEPT !.sentEndOfCandidates = TRUE] ELSE c1
    ELSE c

GotLocalIceCandidate ==
    /\ peerConn # "none"
    /\ \/ \E cand \in {Undef, 0} : Commit(gotLocalIceCandidate(Cur, cand))
       \/ /\ used.stimuli < MaxStimuli
          /\ Commit(gotLocalIceCandidate(
                [Cur EXCEPT !.used.cands = @ + 1, !.used.stimuli = @ + 1],
                used.cands + 1))

onIceGatheringStateChange(c, iceGatheringState) ==
    IF iceGatheringState = "complete" /\ ~c.sentEndOfCandidates
    THEN [queueCandidate(c, 0) EXCEPT !.sentEndOfCandidates = TRUE]
    ELSE c

OnIceGatheringStateChange ==
    /\ peerConn # "none"
    /\ \E g \in {"gathering", "complete"} :
        Commit(onIceGatheringStateChange(Cur, g))

onIceConnectionStateChanged(c) ==
    IF callHasEnded(c) THEN c
    ELSE IF c.iceConnectionState = "connected" THEN setState(c, "connected")
    ELSE IF c.iceConnectionState = "failed"
    THEN hangup(c, "ice_failed", FALSE)
    ELSE c

\* The connection moves to the ICE state ice and fires the event.
IceBecomes(ice) ==
    /\ peerConn \notin {"none", "closed"}
    /\ used.stimuli < MaxStimuli
    /\ Commit(onIceConnectionStateChanged(
            [Cur EXCEPT !.used.stimuli = @ + 1, !.iceConnectionState = ice]))

OnIceConnectionStateChanged ==
    \E ice \in {"connected", "failed", "checking"} : IceBecomes(ice)

FlushTimerFires ==
    /\ timers.flush > 0
    /\ Commit(sendCandidateQueue([Cur EXCEPT !.timers.flush = @ - 1]))

Without(seq, i) == SubSeq(seq, 1, i - 1) \o SubSeq(seq, i + 1, Len(seq))

\* A success handler that keeps the count of tries
candidatesSentKeepsTries(c) == sendCandidateQueue(c)

\* The success handler of a candidates send.
candidatesSent(c) == sendCandidateQueue([c EXCEPT !.candidateSendTries = 0])

\* The failure handler of a candidates send of the batch cands.
candidatesSendFailed(c, cands) ==
    LET c1 == [c EXCEPT !.candidateSendQueue = @ \o cands,
                        !.retryCandidates = @ \o cands]
    IN  IF c1.candidateSendTries > 5
        THEN [c1 EXCEPT !.candidateSendTries = 0]
        ELSE [c1 EXCEPT !.candidateSendTries = @ + 1, !.timers.flush = @ + 1]

\* The send of the i-th batch in flight succeeds.
CandidatesSendSucceeds(i) ==
    Commit(candidatesSent([Cur EXCEPT !.candInFlight = Without(@, i)]))

CandidatesSendResolves ==
    \E i \in DOMAIN candInFlight : CandidatesSendSucceeds(i)

\* The send of the i-th batch in flight fails.
CandidatesSendFailsUpTo(i, limit) ==
    /\ used.candfail < limit
    /\ Commit(candidatesSendFailed(
            [Cur EXCEPT !.candInFlight = Without(@, i),
                        !.used.candfail = @ + 1],
            candInFlight[i]))

CandidatesSendFails(i) == CandidatesSendFailsUpTo(i, MaxCandFail)

CandidatesSendRejects ==
    \E i \in DOMAIN candInFlight : CandidatesSendFails(i)

-----------------------------------------------------------------------------
(***************************************************************************)
(* Muting and hold: setMicrophoneMuted, setLocalVideoMuted,                *)
(* setRemoteOnHold and updateMuteStatus.                                   *)
(***************************************************************************)
updateMuteStatus(c) ==
    IF c.localAVStream = NoStream THEN c
    ELSE [c EXCEPT
            !.tracks.audio = ~(c.tracks.micMuted \/ c.tracks.remoteOnHold),
            !.tracks.video = ~(c.tracks.vidMuted \/ c.tracks.remoteOnHold)]

setMicrophoneMuted(c, muted) ==
    updateMuteStatus([c EXCEPT !.tracks.micMuted = muted])

setLocalVideoMuted(c, muted) ==
    updateMuteStatus([c EXCEPT !.tracks.vidMuted = muted])

setRemoteOnHold(c, onHold) ==
    IF c.tracks.remoteOnHold = onHold THEN c
    ELSE updateMuteStatus([c EXCEPT !.tracks.remoteOnHold = onHold])

SetMicrophoneMuted ==
    /\ UserMay
    /\ \E muted \in BOOLEAN : Commit(setMicrophoneMuted(UserDid(Cur), muted))

SetLocalVideoMuted ==
    /\ UserMay
    /\ \E muted \in BOOLEAN : Commit(setLocalVideoMuted(UserDid(Cur), muted))

SetRemoteOnHold ==
    /\ UserMay
    /\ \E onHold \in BOOLEAN : Commit(setRemoteOnHold(UserDid(Cur), onHold))

-----------------------------------------------------------------------------
\* Placing a call, and the offer path.
Outbound ==
    \/ PlaceVoiceCall \/ PlaceMediaResolves \/ PlaceMediaRejects
    \/ OnNegotiationNeeded \/ OfferCreated \/ OfferCreateFails
    \/ OfferSetLocal \/ OfferSetLocalFails \/ OfferGatherWaitEnds
    \/ OfferSendResolves \/ OfferSendRejects \/ InviteTimeoutFires

\* Receiving a call, and the answer path.
Inbound ==
    \/ InitWithInvite \/ InviteSetRemote \/ InviteSetRemoteFails
    \/ RingTimerFires \/ InitWithHangup
    \/ Answer \/ AnswerMediaResolves \/ AnswerMediaRejects
    \/ AnswerCreated \/ AnswerCreateFails
    \/ AnswerSetLocal \/ AnswerSetLocalFails \/ AnswerGatherWaitEnds
    \/ AnswerSendResolves \/ AnswerSendRejects

\* Messages from the other side.
Messages ==
    \/ OnAnswerReceived \/ AnswerSetRemote \/ AnswerSetRemoteFails
    \/ OnSelectAnswerReceived \/ OnNegotiateReceived
    \/ NegotiateSetRemote \/ NegotiateAnswerCreated \/ NegotiateSetLocal
    \/ NegotiateStepFails
    \/ OnHangupReceived \/ OnRejectReceived \/ OnAnsweredElsewhere
    \/ OnRemoteIceCandidatesReceived

\* Local candidates and their queue.
Candidates ==
    \/ GotLocalIceCandidate \/ OnIceGatheringStateChange
    \/ FlushTimerFires \/ CandidatesSendResolves \/ CandidatesSendRejects

\* The call without its candidate queue, which touches none of the state
\* the handlers below read.
Next ==
    \/ Outbound \/ Inbound \/ Messages
    \/ Hangup \/ Reject \/ ReplacedBy \/ OnIceConnectionStateChanged

Spec == Init /\ [][Next]_vars

\* The call with its candidate queue and no message from the other side.
NextCand ==
    \/ Outbound \/ Inbound \/ Candidates \/ Hangup

SpecCand == Init /\ [][NextCand]_vars

\* The call up to its connection and its end: the ways into and out of
\* InviteSent and Ringing, without renegotiation and remote candidates.
NextEnd ==
    \/ Outbound \/ Inbound
    \/ OnAnswerReceived \/ AnswerSetRemote \/ AnswerSetRemoteFails
    \/ OnSelectAnswerReceived \/ OnHangupReceived \/ OnRejectReceived
    \/ Hangup \/ OnIceConnectionStateChanged

SpecEnd == Init /\ [][NextEnd]_vars

\* The call and the muting and hold requests of its user.
NextMute ==
    \/ Outbound \/ Inbound
    \/ SetMicrophoneMuted \/ SetLocalVideoMuted \/ SetRemoteOnHold

SpecMute == Init /\ [][NextMute]_vars

\* An outbound call that the client may replace by another call.
NextReplace ==
    \/ Outbound \/ Hangup \/ ReplacedBy

SpecReplace == Init /\ [][NextReplace]_vars

\* An inbound call that its user may answer, reject or hang up.
NextReject ==
    \/ Inbound \/ Reject \/ Hangup

SpecReject == Init /\ [][NextReject]_vars

\* The call and the select_answer messages it may receive at any point.
NextSelect ==
    \/ Outbound \/ Inbound \/ OnSelectAnswerReceived \/ Hangup

SpecSelect == Init /\ [][NextSelect]_vars


-----------------------------------------------------------------------------
\* Scenarios of an outbound call.

\* negotiationneeded fires once, after the local stream was attached.
NegotiationNeededOnce ==
    /\ state = "create_offer"
    /\ ~makingOffer
    /\ pcChain = <<>>
    /\ sending.invite = 0 /\ sent.invite = 0
    /\ OnNegotiationNeeded

\* An answer arrives after the invite was sent.
AnswerArrives == state = "invite_sent" /\ OnAnswerReceived

\* ICE connects once the answer was applied; before that it may be checking.
IceProgresses ==
    \/ state = "connecting" /\ pcChain = <<>> /\ IceBecomes("connected")
    \/ iceConnectionState = "new" /\ IceBecomes("checking")

\* The happy outbound path: media is granted, every operation of the peer
\* connection and every send succeeds, the callee answers, ICE connects.
NextHappy ==
    \/ PlaceVoiceCall \/ PlaceMediaGot(TRUE) \/ NegotiationNeededOnce
    \/ OfferCreated \/ OfferSetLocal \/ OfferGatherWaitEnds
    \/ OfferSendResolves
    \/ GotLocalIceCandidate \/ OnIceGatheringStateChange
    \/ FlushTimerFires \/ CandidatesSendResolves
    \/ AnswerArrives \/ AnswerSetRemote \/ IceProgresses

SpecHappy == Init /\ [][NextHappy]_vars

\* An outbound call whose invite was sent and whose candidates sends may
\* fail again and again.
CandidatesSendKeepsFailing ==
    \E i \in DOMAIN candInFlight : CandidatesSendFailsUpTo(i, MaxSendFail)

NextRetry ==
    \/ PlaceVoiceCall \/ PlaceMediaGot(TRUE) \/ NegotiationNeededOnce
    \/ OfferCreated \/ OfferSetLocal \/ OfferGatherWaitEnds
    \/ OfferSendResolves
    \/ GotLocalIceCandidate \/ OnIceGatheringStateChange
    \/ FlushTimerFires \/ CandidatesSendResolves
    \/ CandidatesSendKeepsFailing

SpecRetry == Init /\ [][NextRetry]_vars

\* An outbound call nobody answers and the user leaves alone: any step up
\* to the invite may fail, candidates are gathered and sent, and the invite
\* timer fires when its time has passed.
NextTimeout ==
    \/ PlaceVoiceCall \/ PlaceMediaResolves \/ PlaceMediaRejects
    \/ NegotiationNeededOnce \/ OfferCreated \/ OfferCreateFails
    \/ OfferSetLocal \/ OfferSetLocalFails \/ OfferGatherWaitEnds
    \/ OfferSendResolves \/ OfferSendRejects
    \/ Candidates
    \/ InviteTimeoutFires

\* setTimeout runs its callback once the delay has passed.
SpecTimeout == Init /\ [][NextTimeout]_vars /\ WF_vars(InviteTimeoutFires)

-----------------------------------------------------------------------------
\* Properties

\* C1: Ended is absorbing: once the state is Ended, no later message, user
\* call, timer or resumed continuation moves the call to another state.
C1_EndedIsAbsorbing == [][state = "ended" => state' = "ended"]_vars

\* C2: candidates are transmitted only when an invite or an answer of this
\* call has been sent successfully before (or in the very step that flushes
\* the queue after that send).
C2_CandidatesAfterDescription ==
    [][sent.candidates' > sent.candidates => descSentOk']_vars

\* The fields of the call that a message may change: its state, its flags
\* and its peer connection.
callFields ==
    <<state, direction, hangupParty, hangupReason, opponentPartyId,
      opponentVersion, makingOffer, ignoreOffer, inviteOrAnswerSent,
      remoteStream, peerConn, iceConnectionState, pcChain, pcStreams,
      pcCandidates, inviteTimeout, sent, emitted, stateEvents>>

\* Some message of party_id is delivered to the call in this step.
MessageFrom(party_id) ==
    \/ \E cands \in CandLists : CandidatesFrom(party_id, cands)
    \/ \E type \in DescTypes : NegotiateFrom(party_id, type)
    \/ \E selected \in SelectedParties : SelectAnswerFrom(party_id, selected)
    \/ \E version \in Versions : AnswerFrom(party_id, version)
    \/ \E reason \in Reasons : HangupFrom(party_id, reason)
    \/ RejectFrom(party_id)

\* C3: once opponentPartyId is chosen, a message whose party_id differs from
\* it changes neither the state, nor the flags, nor the peer connection.
C3_OtherPartyIgnored ==
    [][\A party_id \in MsgParties :
          (/\ opponentPartyId # "undefined"
           /\ party_id # opponentPartyId
           /\ MessageFrom(party_id)) => UNCHANGED callFields]_vars

\* C4: opponentPartyId is chosen at most once: after it has left undefined
\* it never changes again.
C4_OpponentChosenOnce ==
    [][opponentPartyId # "undefined" =>
          opponentPartyId' = opponentPartyId]_vars

\* C5: in state Ended the peer connection, when one was created, is closed,
\* and every track of the local and of the remote stream is stopped.
C5_EndedReleasesMedia ==
    state = "ended" =>
        /\ peerConn \in {"none", "closed"}
        /\ (localAVStream # NoStream => localAVStream \in stoppedTracks)
        /\ (remoteStream # NoStream => remoteStream \in stoppedTracks)

\* An ended call that had a peer connection, a local and a remote stream.
C5_Witness ==
    /\ state = "ended"
    /\ peerConn = "closed"
    /\ localAVStream # NoStream /\ localAVStream \in stoppedTracks
    /\ remoteStream # NoStream /\ remoteStream \in stoppedTracks

\* C6: hangup() on a call that has ended sends no message, emits no event
\* and changes neither the state nor the hangup party and reason.
C6_HangupIdempotent ==
    [][(/\ state = "ended"
        /\ \E suppressEvent \in BOOLEAN :
              HangupCalled("user_hangup", suppressEvent))
       => UNCHANGED <<state, hangupParty, hangupReason, sent, emitted,
                      stateEvents, peerConn, stoppedTracks>>]_vars

\* hangup() was called twice; the first call ended the call and sent the
\* one hangup message.
C6_Witness ==
    /\ hangupCalls = 2
    /\ state = "ended"
    /\ hangupParty = "local" /\ hangupReason = "user_hangup"
    /\ sent.hangup = 1

\* C7: the empty candidate that marks the end of candidates is queued at
\* most once per call, and sentEndOfCandidates, once true, stays true.
C7_EndOfCandidatesOnce ==
    endOfCandidatesQueued = IF sentEndOfCandidates THEN 1 ELSE 0

\* The sentinel was queued and real candidates were gathered as well.
C7_Witness ==
    /\ sentEndOfCandidates
    /\ endOfCandidatesQueued = 1
    /\ used.cands >= 1

\* The states a happy outbound call passes through, in order.
HappyTrace ==
    <<"wait_local_media", "create_offer", "invite_sent", "connecting",
      "connected">>

\* C8: on the happy outbound path the k-th State event announces the k-th
\* state of Fledgling, WaitLocalMedia, CreateOffer, InviteSent, Connecting,
\* Connected: the invite's successful send leaves the call in InviteSent,
\* the answer moves it to Connecting and ICE connected to Connected.
C8_HappyOutboundTrace ==
    /\ stateEvents <= Len(HappyTrace)
    /\ state = IF stateEvents = 0 THEN "fledgling" ELSE HappyTrace[stateEvents]
    /\ (descSentOk => stateEvents >= 3)
    /\ (~descSentOk => stateEvents <= 2)
    /\ (opponentPartyId # "undefined" <=> stateEvents >= 4)
    /\ (iceConnectionState = "connected" <=> stateEvents = 5)

\* The call went all the way to Connected.
C8_Witness ==
    /\ direction = "outbound"
    /\ state = "connected"
    /\ stateEvents = 5
    /\ sent.invite = 1 /\ descSentOk
    /\ opponentPartyId # "undefined"
    /\ iceConnectionState = "connected"

\* The call was ended by the invite timeout: one hangup message, a Hangup
\* event and no Error event.
EndedByInviteTimeout ==
    /\ state = "ended"
    /\ hangupParty = "local"
    /\ hangupReason = "invite_timeout"
    /\ sent.hangup = 1
    /\ emitted.hangup = 1
    /\ emitted.error = 0

\* C9: an outbound call in InviteSent that gets no answer, reject or hangup
\* is eventually, and from then on, ended by the invite timeout.
C9_InviteTimesOut == (state = "invite_sent") ~> []EndedByInviteTimeout

\* The timer fired in InviteSent and ended the call.
C9_Witness ==
    /\ EndedByInviteTimeout
    /\ direction = "outbound"
    /\ sent.invite = 1 /\ descSentOk
    /\ timers.invite = 0 /\ ~inviteTimeout

\* C10: an inbound (polite) call never has ignoreOffer true.
C10_PoliteNeverIgnores == direction = "inbound" => ~ignoreOffer

\* C11: a hangup received by a call that has not ended and has chosen no
\* opponent is accepted whatever its party_id: the call ends with hangup
\* party Remote and the message's reason (UserHangup when it has none), and
\* no message is sent.
C11_EarlyHangupIsReject ==
    [][\A party_id \in MsgParties, reason \in Reasons :
          (/\ state # "ended"
           /\ opponentPartyId = "undefined"
           /\ HangupFrom(party_id, reason))
          => /\ state' = "ended"
             /\ hangupParty' = "remote"
             /\ hangupReason' = IF reason = "none" THEN "user_hangup"
                                ELSE reason
             /\ sent' = sent]_vars

\* An outbound call whose invite was sent and that a hangup with a reason
\* ended before any answer.
C11_Witness ==
    /\ direction = "outbound"
    /\ sent.invite = 1
    /\ opponentPartyId = "undefined"
    /\ state = "ended"
    /\ hangupParty = "remote"
    /\ hangupReason = "ice_failed"
    /\ sent.hangup = 0

\* C12: on an inbound call that has not ended, a select_answer that names
\* another party ends the call at once with hangup party Remote and reason
\* AnsweredElsewhere; one that names our party, or that arrives at a call
\* that is not inbound, changes nothing.
C12_SelectAnswer ==
    [][\A party_id \in MsgParties, selected \in SelectedParties :
          SelectAnswerFrom(party_id, selected)
          => /\ (/\ state # "ended"
                 /\ direction = "inbound"
                 /\ selected \notin {"null", OurPartyId})
                => /\ state' = "ended"
                   /\ hangupParty' = "remote"
                   /\ hangupReason' = "answered_elsewhere"
             /\ (selected = OurPartyId \/ direction # "inbound")
                => UNCHANGED callFields]_vars

\* An inbound call that sent its answer and was then ended because the
\* caller selected another party.
C12_Witness ==
    /\ direction = "inbound"
    /\ descSentOk /\ sent.answer = 1
    /\ state = "ended"
    /\ hangupParty = "remote"
    /\ hangupReason = "answered_elsewhere"

\* a is b with some elements left out: the elements of a occur in b in the
\* order they have in a.
RECURSIVE IsSubSeq(_, _)
IsSubSeq(a, b) ==
    IF a = <<>> THEN TRUE
    ELSE IF b = <<>> THEN FALSE
    ELSE IF Head(a) = Head(b) THEN IsSubSeq(Tail(a), Tail(b))
    ELSE IsSubSeq(a, Tail(b))

\* C13 as stated: after failed sends and a later send that succeeds,
\* candidateSendTries is 0 once the success has been handled.
C13_TriesZeroAfterSuccess ==
    [][(/\ inviteOrAnswerSent
        /\ used.candfail >= 1
        /\ candidateSendTries >= 3
        /\ Len(candInFlight) = 1
        /\ CandidatesSendSucceeds(1))
       => candidateSendTries' = 0]_vars

\* C13, amended: with inviteOrAnswerSent true, a failed candidates send
\* changes neither the state nor the peer connection and emits nothing; the
\* candidates of the failed batch wait in the queue in their order, and the
\* next candidates message carries the whole queue, them included; the
\* success of a send resets candidateSendTries to 0, and the candidates
\* queued meanwhile are sent at once, which makes it 1.
C13_CandidateRetry ==
    [][/\ \A i \in DOMAIN candInFlight :
            (inviteOrAnswerSent /\ CandidatesSendFails(i))
            => /\ UNCHANGED <<state, hangupParty, hangupReason, emitted,
                              peerConn, sent>>
               /\ IsSubSeq(candInFlight[i], candidateSendQueue')
       /\ IsSubSeq(retryCandidates', candidateSendQueue')
       /\ sent.candidates' > sent.candidates
            => /\ candInFlight' # <<>>
               /\ candInFlight'[Len(candInFlight')] = candidateSendQueue
               /\ IsSubSeq(retryCandidates, candidateSendQueue)
       /\ \A i \in DOMAIN candInFlight :
            (inviteOrAnswerSent /\ CandidatesSendSucceeds(i))
            => candidateSendTries' =
                  IF candidateSendQueue = <<>> THEN 0 ELSE 1]_vars

\* A batch of two candidates failed, was sent again and arrived: nothing
\* waits any more, the count of tries is 0 and the call is as it was.
C13_Witness ==
    /\ inviteOrAnswerSent
    /\ state = "invite_sent"
    /\ used.candfail >= 1
    /\ used.cands >= 2
    /\ sent.candidates >= 2
    /\ candInFlight = <<>>
    /\ candidateSendQueue = <<>>
    /\ candidateSendTries = 0

\* What a failed send does besides setting the state: the pending event is
\* cancelled and one Error event with the code is emitted.
SendFailureReported(code) ==
    /\ cancelled' = cancelled + 1
    /\ emitted.error' = emitted.error + 1
    /\ emitted.code' = code

LocalSetupFails(code) ==
    \/ code = "local_offer_failed" /\ OfferCreateFails
    \/ code = "create_answer" /\ AnswerCreateFails
    \/ code = "set_local_description"
       /\ (OfferSetLocalFails \/ AnswerSetLocalFails)
    \/ code = "set_remote_description"
       /\ (InviteSetRemoteFails \/ AnswerSetRemoteFails)
    \/ code = "no_user_media"
       /\ (PlaceMediaRejects \/ PlaceMediaGot(FALSE) \/ AnswerMediaRejects)

\* C15: every local setup failure of a call that has not ended (and has not
\* been replaced) emits an Error event with the failure's code, ends the
\* call with that reason and hangup party Local, and emits no Hangup event.
C15_SetupFailureReported ==
    [][\A code \in {"local_offer_failed", "create_answer",
                    "set_local_description", "set_remote_description",
                    "no_user_media"} :
          (state # "ended" /\ ~successor.present /\ LocalSetupFails(code))
          => /\ emitted.error' = emitted.error + 1
             /\ emitted.code' = code
             /\ state' = "ended"
             /\ hangupParty' = "local"
             /\ hangupReason' = code
             /\ emitted.hangup' = emitted.hangup]_vars

\* C16: a step that ends the call because of a remote hangup, a remote
\* reject, a select_answer or replacement by another call sends no
\* signalling message; in particular replacedBy sends no hangup message.
C16_SilentTermination ==
    [][( /\ state # "ended"
         /\ state' = "ended"
         /\ \/ ReplacedBy
            \/ OnHangupReceived
            \/ OnRejectReceived
            \/ OnSelectAnswerReceived )
       => sent' = sent]_vars

C18_RingExpiry ==
    [][(state = "ringing" /\ RingTimerFires)
       => /\ state' = "ended"
          /\ hangupParty' = "remote"
          /\ hangupReason' = "user_hangup"]_vars

\* C19: every inbound invite that is successfully initialised gets a ring
\* expiry, whatever its local_age: the step that makes the call ring arms
\* the ring timer.
C19_RingExpiryScheduled ==
    [][(InviteSetRemote /\ state' = "ringing")
       => timers.ring' = timers.ring + 1]_vars

\* C20: when a candidates send fails, the failed batch is put back at the
\* front of the candidate queue, ahead of the candidates that were enqueued
\* while the send was in flight.
C20_FailedBatchPrepended ==
    [][\A i \in DOMAIN candInFlight :
          CandidatesSendFails(i)
          => candidateSendQueue' = candInFlight[i] \o candidateSendQueue]_vars

\* The candidates sends that succeeded so far.
CandidatesDelivered == sent.candidates - Len(candInFlight) - used.candfail

\* C21: the candidate queue is abandoned only after more than 5 consecutive
\* send attempts have failed: when the n-th attempt in a row fails and n is
\* at most 5 a retry is scheduled, and when the queue is abandoned the
\* counter is reset and the candidates are kept.
C21_AbandonAfterFiveFailures ==
    [][\A i \in DOMAIN candInFlight :
          (/\ CandidatesDelivered = 0
           /\ Len(candInFlight) = 1
           /\ CandidatesSendFailsUpTo(i, MaxSendFail))
          => IF used.candfail + 1 <= 5
             THEN timers.flush' = timers.flush + 1
             ELSE /\ timers.flush' = timers.flush
                  /\ candidateSendTries' = 0
                  /\ IsSubSeq(candInFlight[i], candidateSendQueue')]_vars

\* The passes of onNegotiationNeeded and gotLocalOffer in progress: those
\* waiting for createOffer, for setLocalDescription, for the gather wait or
\* for the send of their invite or negotiate.
OfferPasses ==
    Cardinality({i \in DOMAIN pcChain :
                    pcChain[i][1] \in {"off.createOffer", "off.setLocal"}})
    + timers.offerGather + sending.invite + sending.negotiate

\* C22: offer creation is mutually exclusive: at most one pass of
\* onNegotiationNeeded and gotLocalOffer is in progress at any time, and
\* makingOffer is true exactly while one is.
C22_OneOfferAtATime ==
    /\ OfferPasses <= 1
    /\ makingOffer <=> OfferPasses = 1

\* C23: for a candidates message that the party filter accepts on a call
\* that has not ended, every candidate that has sdpMid or sdpMLineIndex is
\* added to the peer connection, whatever precedes it in the message.
C23_EachCandidateAdded ==
    [][\A party_id \in MsgParties, cands \in CandLists :
          (/\ state # "ended"
           /\ peerConn # "none"
           /\ partyIdMatches(Cur, party_id)
           /\ CandidatesFrom(party_id, cands))
          => pcCandidates' = pcCandidates
                + Cardinality({i \in DOMAIN cands : cands[i]})]_vars

\* C24: whenever the call holds a local stream, its audio tracks are enabled
\* if and only if neither micMuted nor remoteOnHold is set, and its video
\* tracks if and only if neither vidMuted nor remoteOnHold is set.
C24_TrackGating ==
    localAVStream # NoStream
    => /\ tracks.audio <=> ~(tracks.micMuted \/ tracks.remoteOnHold)
       /\ tracks.video <=> ~(tracks.vidMuted \/ tracks.remoteOnHold)

C26_AnswerOnlyFromInviteSent ==
    [][\A party_id \in MsgParties, version \in Versions :
          (state # "invite_sent" /\ AnswerFrom(party_id, version))
          => state' = state]_vars

\* C27: hangupParty and hangupReason are written exactly once, when the
\* call ends: both are unset while the call has not ended, both are set in
\* every state where it has, and once it has ended they never change.
C27_HangupFieldsSetOnce ==
    [][/\ state' # "ended" => hangupParty' = "null" /\ hangupReason' = ""
       /\ state' = "ended" => hangupParty' # "null" /\ hangupReason' # ""
       /\ state = "ended" => UNCHANGED <<hangupParty, hangupReason>>]_vars

C29_OneInvite ==
    /\ sent.invite <= 1
    /\ timers.invite <= 1

\* C30: at most one candidates send is in flight (sent and not yet settled)
\* at any time.
C30_OneCandidatesSendInFlight == Len(candInFlight) <= 1

\* C31: once the call has reached Ended no further signalling message is
\* handed to the transport for it: no step taken in Ended sends anything.
C31_NothingSentAfterEnded ==
    [][state = "ended" => sent' = sent]_vars

\* The answer sends that succeeded so far on a call that sends no offer:
\* every failed send cancels its pending event.
AnswersDelivered == sent.answer - sending.answer - cancelled

\* C32: however often and whenever answer() is called on an inbound call,
\* local media is acquired at most once, the local stream is attached to the
\* peer connection once and at most one answer message is sent successfully.
C32_AnswerTakesEffectOnce ==
    direction = "inbound"
    => /\ streamsAcquired <= 1
       /\ pcStreams <= 1
       /\ AnswersDelivered <= 1


\* C33: whenever an invite send completes successfully on a call that has not
\* ended, invite_or_answer_sent is true afterwards, also when the answer has
\* moved the call to Connecting before the completion is processed.
C33_InviteSentIsRecorded ==
    [][(/\ state # "ended"
        /\ sending.invite > 0
        /\ sending' = [sending EXCEPT !.invite = @ - 1]
        /\ cancelled' = cancelled)
       => inviteOrAnswerSent']_vars

\* C34: the local stream handed to the successor call during replacement
\* stays live: the replaced call never stops the tracks of a stream that its
\* successor holds as local stream.
C34_HandedStreamStaysLive ==
    (successor.present /\ successor.localAVStream # NoStream)
    => successor.localAVStream \notin stoppedTracks

=============================================================================
